---- MODULE Spec2Model ----
(***************************************************************************)
(* Model of typed-react-router: the path table PATHS, the validator        *)
(* isParams, the URL builder buildUrl, the hooks useTypedParams and        *)
(* useTypedSwitch, the TypedLink / TypedRedirect components and the App    *)
(* that mounts them.                                                       *)
(*                                                                         *)
(* A JavaScript string is a sequence of one-character strings.  A          *)
(* JavaScript object is a sequence of [key, val] records with distinct     *)
(* keys, in the order Object.keys enumerates them (insertion order: none   *)
(* of the keys used here is an array index).                               *)
(***************************************************************************)
EXTENDS Integers, Sequences, FiniteSets

(* ----------------------------- bounds ---------------------------------- *)

\* Largest number of own keys of a params object passed to a call.
MaxKeys == 2

\* Largest number of entries of a routes array handed to useTypedSwitch.
MaxRoutes == 2

(* ------------------------- string literals ----------------------------- *)

P_root == <<"/">>
P_signup == <<"/", "s", "i", "g", "n", "u", "p">>
P_login == <<"/", "l", "o", "g", "i", "n">>
P_post == <<"/", "p", "o", "s", "t", "/", ":", "i", "d">>
P_calendar ==
    <<"/", "c", "a", "l", "e", "n", "d", "a", "r", "/", ":", "y", "e", "a", "r",
      "/", ":", "m", "o", "n", "t", "h">>

\* const PATHS = [...] as const; a Path is one of its members.
PATHS == {P_root, P_signup, P_login, P_post, P_calendar}

K_id == <<"i", "d">>
K_year == <<"y", "e", "a", "r">>
K_month == <<"m", "o", "n", "t", "h">>
K_i == <<"i">>

(* --------------------- JavaScript string primitives -------------------- *)

MinOf(S) == CHOOSE x \in S : \A y \in S : x <= y

\* String.prototype.indexOf, 1-based; 0 when pat does not occur in s.
FirstOf(hits) == IF hits = {} THEN 0 ELSE MinOf(hits)

IndexOf(s, pat) ==
    FirstOf({i \in 1..(Len(s) - Len(pat) + 1) : SubSeq(s, i, i + Len(pat) - 1) = pat})

\* String.prototype.startsWith.
StartsWith(s, pat) == Len(s) >= Len(pat) /\ SubSeq(s, 1, Len(pat)) = pat

\* String.prototype.substr(from), from 0-based.
Substr(s, from) == SubSeq(s, from + 1, Len(s))

\* String.prototype.split(sep) for a one-character separator.
RECURSIVE Split(_, _)
SplitAt(s, sep, i) ==
    IF i = 0 THEN <<s>>
    ELSE <<SubSeq(s, 1, i - 1)>> \o Split(SubSeq(s, i + 1, Len(s)), sep)

Split(s, sep) == SplitAt(s, sep, IndexOf(s, <<sep>>))

\* The grave accent and the apostrophe, which a TLA+ string cannot hold.
Backtick == "GRAVE"
Apostrophe == "APOS"

\* GetSubstitution of String.prototype.replace for a string pattern (no
\* capture groups): $$ is "$", $& the matched text, $ and a grave accent the
\* text before the match, $ and an apostrophe the text after it; any other
\* "$" stands for itself.
IsPattern(c) == c \in {"$", "&", Backtick, Apostrophe}

Substitute(c, matched, before, after) ==
    IF c = "$" THEN <<"$">>
    ELSE IF c = "&" THEN matched
    ELSE IF c = Backtick THEN before
    ELSE after

RECURSIVE GetSubstitution(_, _, _, _)
GetSubstitution(matched, before, after, replacement) ==
    IF replacement = <<>> THEN <<>>
    ELSE IF Head(replacement) = "$" /\ Len(replacement) >= 2 /\ IsPattern(replacement[2])
    THEN Substitute(replacement[2], matched, before, after)
         \o GetSubstitution(matched, before, after, SubSeq(replacement, 3, Len(replacement)))
    ELSE <<Head(replacement)>> \o GetSubstitution(matched, before, after, Tail(replacement))

\* String.prototype.replace(pattern, replacement) with a string pattern:
\* only the first occurrence of the pattern is replaced.
Spliced(before, pattern, after, replacement) ==
    before \o GetSubstitution(pattern, before, after, replacement) \o after

ReplaceAt(s, pattern, replacement, i) ==
    IF i = 0 THEN s
    ELSE Spliced(SubSeq(s, 1, i - 1), pattern, SubSeq(s, i + Len(pattern), Len(s)),
                 replacement)

StringReplace(s, pattern, replacement) ==
    ReplaceAt(s, pattern, replacement, IndexOf(s, pattern))

(* ------------------------- JavaScript objects -------------------------- *)

\* new Set(Object.keys(obj))
KeySet(obj) == {obj[k].key : k \in 1..Len(obj)}

\* obj[key] for a key the object holds.
Get(obj, key) == obj[CHOOSE k \in 1..Len(obj) : obj[k].key = key].val

EmptyObject == <<>>

(* ------------------------------ paths.tsx ------------------------------ *)

\* A value of type unknown handed to isParams: null, undefined, a primitive,
\* or an object.  inheritsObject says whether Object.prototype is on the
\* object's prototype chain (true of {} and of arrays, false of
\* Object.create(null)); props are its own enumerable properties.
NullValue == [kind |-> "null", inheritsObject |-> FALSE, props |-> EmptyObject]
UndefinedValue == [kind |-> "undefined", inheritsObject |-> FALSE, props |-> EmptyObject]
PrimitiveValue == [kind |-> "primitive", inheritsObject |-> FALSE, props |-> EmptyObject]
PlainObject(obj) == [kind |-> "object", inheritsObject |-> TRUE, props |-> obj]
NullProtoObject(obj) == [kind |-> "object", inheritsObject |-> FALSE, props |-> obj]

\* params instanceof Object
InstanceOfObject(v) == v.kind = "object" /\ v.inheritsObject

IsParamSegment(s) == StartsWith(s, <<":">>)

\* path.split('/').filter((s) => s.startsWith(':')).map((s) => s.substr(1))
\* The required names with the marker left on them: map((s) => s).
NamesWithMarker(marked) == marked

Names(marked) == [k \in 1..Len(marked) |-> Substr(marked[k], 1)]

RequiredParams(path) == Names(SelectSeq(Split(path, "/"), IsParamSegment))

\* for (const x of requiredParams) if (!paramSet.has(x)) return false;
HasAll(paramSet, requiredParams) ==
    \A k \in 1..Len(requiredParams) : requiredParams[k] \in paramSet

\* isParams without the instanceof test.
isParamsUnguarded(path, candidate) == HasAll(KeySet(candidate.props), RequiredParams(path))

isParams(path, candidate) ==
    IF ~InstanceOfObject(candidate) THEN FALSE
    ELSE HasAll(KeySet(candidate.props), RequiredParams(path))

\* The search token without the marker: replace(key, ...).
BareToken(key) == key

\* The token String.prototype.replace searches for: `:${key}`.
MarkerToken(key) == <<":">> \o key

\* for (const key of Object.keys(paramObj)) ret = ret.replace(`:${key}`, paramObj[key]);
RECURSIVE ReplaceLoop(_, _, _)
ReplaceLoop(ret, paramObj, k) ==
    IF k > Len(paramObj) THEN ret
    ELSE ReplaceLoop(StringReplace(ret, MarkerToken(paramObj[k].key), paramObj[k].val),
                     paramObj, k + 1)

buildUrl(path, params) == ReplaceLoop(path, params, 1)

(* --------------- react-router-dom: matchPath, Route, Switch ------------ *)

\* \w of the regular expression that reads a parameter name.
WordChars ==
    {"a", "b", "c", "d", "e", "f", "g", "h", "i", "j", "k", "l", "m", "n", "o", "p", "q",
     "r", "s", "t", "u", "v", "w", "x", "y", "z", "P", "L", "_",
     "0", "1", "2", "3", "4", "5", "6", "7", "8", "9"}

\* Case folding of the "i" flag, over the letters the model uses.
ToLower(c) == IF c = "P" THEN "p" ELSE IF c = "L" THEN "l" ELSE c
LowerCase(s) == [k \in 1..Len(s) |-> ToLower(s[k])]

\* Length of the longest prefix of s made of characters of S.
RECURSIVE RunLength(_, _)
RunLength(s, S) ==
    IF s = <<>> \/ Head(s) \notin S THEN 0 ELSE 1 + RunLength(Tail(s), S)

\* Length of the longest prefix of s without "/": what [^\/]+ can take.
RECURSIVE SegmentLength(_)
SegmentLength(s) ==
    IF s = <<>> \/ Head(s) = "/" THEN 0 ELSE 1 + SegmentLength(Tail(s))

TextToken(text) == [isKey |-> FALSE, text |-> text, name |-> <<>>]
KeyToken(prefix, name) == [isKey |-> TRUE, text |-> prefix, name |-> name]

\* Append one character of literal text to the token list.
PushChar(tokens, c) ==
    IF tokens # <<>> /\ ~tokens[Len(tokens)].isKey
    THEN [tokens EXCEPT ![Len(tokens)].text = @ \o <<c>>]
    ELSE Append(tokens, TextToken(<<c>>))

\* path-to-regexp parse(): ":" followed by word characters is a key named
\* by them, and a "/" right before the ":" is the key's prefix; everything
\* else is literal text.  (No path of PATHS has a modifier or a custom
\* pattern, so those are not read.)
RECURSIVE Parse(_, _)

\* at starts with the ":" of a key whose name has n characters.
ParseKey(at, n, prefix, tokens) ==
    Parse(SubSeq(at, n + 2, Len(at)), Append(tokens, KeyToken(prefix, SubSeq(at, 2, n + 1))))

NameLength(at) == IF Head(at) = ":" THEN RunLength(Tail(at), WordChars) ELSE 0

Parse(path, tokens) ==
    IF path = <<>> THEN tokens
    ELSE IF Head(path) = "/" /\ Len(path) >= 2 /\ NameLength(Tail(path)) > 0
    THEN ParseKey(Tail(path), NameLength(Tail(path)), <<"/">>, tokens)
    ELSE IF NameLength(path) > 0
    THEN ParseKey(path, NameLength(path), <<>>, tokens)
    ELSE Parse(Tail(path), PushChar(tokens, Head(path)))

NoValues == [ok |-> FALSE, values |-> <<>>]

\* Literal text at the head of s, under the case rule of `sensitive`.
TextAtHead(s, text, sensitive) ==
    IF sensitive THEN StartsWith(s, text) ELSE StartsWith(LowerCase(s), LowerCase(text))

\* What the regular expression allows after the last token.  strict false
\* adds (?:\/(?=$))? ; end true adds $ ; end false adds (?=\/|$).
AtEnd(rest, options) ==
    IF options.exact THEN rest = <<>> ELSE rest = <<>> \/ Head(rest) = "/"

TailMatches(rest, options) ==
    AtEnd(IF ~options.strict /\ rest = <<"/">> THEN <<>> ELSE rest, options)

\* The capture of n characters of rest, followed by the captures of what
\* comes after it.
Capture(n, rest, subs) ==
    [ok |-> TRUE, values |-> <<SubSeq(rest, 1, n)>> \o subs[n].values]

ShortestFit(fits, rest, subs) ==
    IF fits = {} THEN NoValues ELSE Capture(MinOf(fits), rest, subs)

\* regexp.exec(pathname) for the tokens from k on: a text token must stand
\* at the head; a key token is its prefix followed by [^\/]+? , the shortest
\* non-empty run without "/" after which the rest still matches.
RECURSIVE Exec(_, _, _, _)

ExecKey(tokens, k, rest, options, subs) ==
    ShortestFit({n \in DOMAIN subs : subs[n].ok}, rest, subs)

ExecToken(tokens, k, isKey, rest, options) ==
    IF ~isKey THEN Exec(tokens, k + 1, rest, options)
    ELSE ExecKey(tokens, k, rest, options,
                 [n \in 1..SegmentLength(rest) |->
                     Exec(tokens, k + 1, SubSeq(rest, n + 1, Len(rest)), options)])

Exec(tokens, k, s, options) ==
    IF k > Len(tokens) THEN [ok |-> TailMatches(s, options), values |-> <<>>]
    ELSE IF ~TextAtHead(s, tokens[k].text, options.sensitive) THEN NoValues
    ELSE ExecToken(tokens, k, tokens[k].isKey,
                   SubSeq(s, Len(tokens[k].text) + 1, Len(s)), options)

\* With strict false a trailing "/" of the route is dropped before the
\* optional one is added.
DropTrailingSlash(tokens, text) ==
    IF text[Len(text)] # "/" THEN tokens
    ELSE IF Len(text) = 1 THEN SubSeq(tokens, 1, Len(tokens) - 1)
    ELSE [tokens EXCEPT ![Len(tokens)].text = SubSeq(text, 1, Len(text) - 1)]

LooseTokens(tokens) ==
    IF tokens # <<>> /\ ~tokens[Len(tokens)].isKey
    THEN DropTrailingSlash(tokens, tokens[Len(tokens)].text)
    ELSE tokens

RouteTokens(path, options) ==
    IF options.strict THEN Parse(path, <<>>) ELSE LooseTokens(Parse(path, <<>>))

\* The keys of the route, in order.
KeyNames(keys) == [k \in 1..Len(keys) |-> keys[k].name]
RouteKeys(path) == KeyNames(SelectSeq(Parse(path, <<>>), LAMBDA t : t.isKey))

NoMatch == [isMatch |-> FALSE, params |-> EmptyObject]

\* keys.reduce((memo, key, index) => { memo[key.name] = values[index]; ... }, {}):
\* one property per key, in order (a key that repeats is assigned again and
\* keeps its first position).
SetProperty(obj, key, val, held) ==
    IF held = {} THEN Append(obj, [key |-> key, val |-> val])
    ELSE [obj EXCEPT ![CHOOSE k \in held : TRUE].val = val]

RECURSIVE Assign(_, _, _)
Assign(obj, keys, values) ==
    IF keys = <<>> THEN obj
    ELSE Assign(SetProperty(obj, Head(keys), Head(values),
                            {k \in 1..Len(obj) : obj[k].key = Head(keys)}),
                Tail(keys), Tail(values))

MatchOf(m, path) ==
    IF ~m.ok THEN NoMatch
    ELSE [isMatch |-> TRUE, params |-> Assign(EmptyObject, RouteKeys(path), m.values)]

\* matchPath(pathname, { path, exact, strict, sensitive }): null, or a match
\* whose params is a fresh {} filled from the captures.
matchPath(pathname, options) ==
    MatchOf(Exec(RouteTokens(options.path, options), 1, pathname, options), options.path)

(* ------------------------------- hooks --------------------------------- *)

\* useRouteMatch(options): matchPath on the pathname of the current location.
useRouteMatch(pathname, options) == matchPath(pathname, options)

\* The options without strict: a trailing slash is let through.
LooseOptions(path) ==
    [path |-> path, exact |-> TRUE, sensitive |-> TRUE, strict |-> FALSE]

\* { path, exact: true, sensitive: true, strict: true }
TypedParamsOptions(path) ==
    [path |-> path, exact |-> TRUE, sensitive |-> TRUE, strict |-> TRUE]

Null == [isNull |-> TRUE, params |-> EmptyObject]

\* if (!match || !isParams(path, match.params)) return null; return match.params;
TypedParamsOf(path, match) ==
    IF ~match.isMatch \/ ~isParams(path, PlainObject(match.params))
    THEN Null
    ELSE [isNull |-> FALSE, params |-> match.params]

useTypedParams(path, pathname) ==
    TypedParamsOf(path, useRouteMatch(pathname, TypedParamsOptions(path)))

\* The component handed over where none is: fallbackComponent undefined.
Undefined == "undefined"

\* <Route exact strict sensitive path={path}>
RouteProps(path) ==
    [path |-> path, exact |-> TRUE, strict |-> TRUE, sensitive |-> TRUE]

\* The children with <Fallback /> put before the routes.
FallbackFirst(rs, fallbackComponent) ==
    (IF fallbackComponent # Undefined
     THEN <<[hasPath |-> FALSE, path |-> <<>>, component |-> fallbackComponent]>>
     ELSE <<>>)
    \o [i \in 1..Len(rs) |->
          [hasPath |-> TRUE, path |-> rs[i].path, component |-> rs[i].component]]

\* The children of <Switch>: one Route per entry of routes, in order, then
\* <Fallback /> when Fallback is truthy.  Only a Route has a path prop.
SwitchChildren(rs, fallbackComponent) ==
    [i \in 1..Len(rs) |->
        [hasPath |-> TRUE, path |-> rs[i].path, component |-> rs[i].component]]
    \o (IF fallbackComponent # Undefined
        THEN <<[hasPath |-> FALSE, path |-> <<>>, component |-> fallbackComponent]>>
        ELSE <<>>)

\* Switch gives a child without path the match of the enclosing Router,
\* which is never null.
ContextMatch == [isMatch |-> TRUE, params |-> EmptyObject]

ChildMatch(child, pathname) ==
    IF child.hasPath THEN matchPath(pathname, RouteProps(child.path)) ELSE ContextMatch

\* The last child whose match is not null.
LastMatch(matches) ==
    IF \A i \in 1..Len(matches) : ~matches[i].isMatch THEN 0
    ELSE CHOOSE i \in 1..Len(matches) :
            matches[i].isMatch /\ \A j \in (i + 1)..Len(matches) : ~matches[j].isMatch

\* Switch keeps the first child whose match is not null.
FirstMatch(matches) ==
    IF \A i \in 1..Len(matches) : ~matches[i].isMatch THEN 0
    ELSE MinOf({i \in 1..Len(matches) : matches[i].isMatch})

\* Switch renders that child with its match, and null when there is none.
Selected(children, matches, i) ==
    IF i = 0
    THEN [kind |-> "null", index |-> 0, component |-> Undefined, params |-> EmptyObject]
    ELSE [kind |-> IF children[i].hasPath THEN "route" ELSE "fallback",
          index |-> IF children[i].hasPath THEN i ELSE 0,
          component |-> children[i].component,
          params |-> matches[i].params]

Switch(children, matches) == Selected(children, matches, FirstMatch(matches))

SwitchAt(children, pathname) ==
    Switch(children, [i \in 1..Len(children) |-> ChildMatch(children[i], pathname)])

\* The element the component returned by useTypedSwitch renders.
useTypedSwitch(rs, fallbackComponent, pathname) ==
    SwitchAt(SwitchChildren(rs, fallbackComponent), pathname)

(* ------------------------------ screens -------------------------------- *)

\* The path a screen hands to useTypedParams: Post and Calendar do, the
\* other screens call no hook.
ScreenPath(component) ==
    IF component = "Post" THEN P_post
    ELSE IF component = "Calendar" THEN P_calendar
    ELSE <<>>

\* if (params === null) throw new Error('... rendered in invalid path.');
Shown(typedParams) == [threw |-> typedParams.isNull, typed |-> typedParams.params]

RenderScreen(component, pathname) ==
    IF component \in {"Post", "Calendar"}
    THEN Shown(useTypedParams(ScreenPath(component), pathname))
    ELSE [threw |-> FALSE, typed |-> EmptyObject]

RenderElement(element, shown) ==
    [kind |-> element.kind, index |-> element.index,
     component |-> element.component, params |-> element.params,
     threw |-> shown.threw, typed |-> shown.typed]

Rendering(element, pathname) ==
    RenderElement(element, RenderScreen(element.component, pathname))

\* <TypedSwitch /> at a location: the selected element and its rendering.
Render(rs, fb, pathname) == Rendering(useTypedSwitch(rs, fb, pathname), pathname)

\* The routes App hands to useTypedSwitch; it gives no fallback.
AppRoutes ==
    << [path |-> P_root, component |-> "Home"],
       [path |-> P_login, component |-> "LogIn"],
       [path |-> P_signup, component |-> "SignUp"],
       [path |-> P_post, component |-> "Post"],
       [path |-> P_calendar, component |-> "Calendar"] >>

\* Home: calendarData and postData, as the strings toString() gives.
CalendarData ==
    { <<<<"1", "8", "0", "0">>, <<"1", "1">>>>, <<<<"1", "9", "1", "9">>, <<"3">>>>, <<<<"2", "0", "1", "5">>, <<"2">>>>, <<<<"2", "0", "2", "2">>, <<"1">>>> }
PostData == { <<"1">>, <<"2">>, <<"3">>, <<"4">>, <<"5">>, <<"1", "0">>, <<"1", "0", "0">> }

\* The <TypedLink> elements of NavBar and of Home, as [to, params].
NavBarLinks == { [to |-> t, params |-> EmptyObject] : t \in {P_root, P_login, P_signup} }
HomeLinks ==
    { [to |-> P_calendar,
       params |-> <<[key |-> K_year, val |-> x[1]], [key |-> K_month, val |-> x[2]]>>]
        : x \in CalendarData }
    \cup { [to |-> P_post, params |-> <<[key |-> K_id, val |-> x]>>] : x \in PostData }

(* ------------------------------ inputs --------------------------------- *)

\* Keys and values of the params objects that are tried: the parameter
\* names of PATHS, a name that is a prefix of another, and values that are
\* plain, empty, hold a "/", hold a marker token, or hold a "$" pattern.
Keys == {K_id, K_year, K_month, K_i}
Values == {<<"5">>, <<>>, <<"a", "/", "b">>, <<":", "m", "o", "n", "t", "h">>, <<"$", "&">>}

DistinctKeys(obj) == \A j, k \in 1..Len(obj) : obj[j].key = obj[k].key => j = k

ParamObjects ==
    {obj \in UNION {[1..n -> [key : Keys, val : Values]] : n \in 0..MaxKeys} :
        DistinctKeys(obj)}

Candidates ==
    {NullValue, UndefinedValue, PrimitiveValue}
    \cup {PlainObject(obj) : obj \in ParamObjects}
    \cup {NullProtoObject(obj) : obj \in ParamObjects}

\* Locations a browser can be sent to: /, /login, /post/5, /post/new,
\* /calendar/2024/5, /post, /post/5/extra, /post/5/, /Post/5, /post//,
\* /calendar/2024, /calendar//5, /login/, /nonexistent.
Pathnames ==
    { <<"/">>, <<"/", "l", "o", "g", "i", "n">>, <<"/", "p", "o", "s", "t", "/", "5">>, <<"/", "p", "o", "s", "t", "/", "n", "e", "w">>, <<"/", "c", "a", "l", "e", "n", "d", "a", "r", "/", "2", "0", "2", "4", "/", "5">>,
      <<"/", "p", "o", "s", "t">>, <<"/", "p", "o", "s", "t", "/", "5", "/", "e", "x", "t", "r", "a">>, <<"/", "p", "o", "s", "t", "/", "5", "/">>, <<"/", "P", "o", "s", "t", "/", "5">>, <<"/", "p", "o", "s", "t", "/", "/">>,
      <<"/", "c", "a", "l", "e", "n", "d", "a", "r", "/", "2", "0", "2", "4">>, <<"/", "c", "a", "l", "e", "n", "d", "a", "r", "/", "/", "5">>, <<"/", "l", "o", "g", "i", "n", "/">>, <<"/", "n", "o", "n", "e", "x", "i", "s", "t", "e", "n", "t">> }

Components == {"Home", "Post"}
Fallbacks == {Undefined, "LogIn"}

\* An entry of routes: { path: Path, component: ComponentType }.  Nothing
\* keeps two entries from having the same path.
RouteEntries == [path : PATHS, component : Components]

Registries == UNION {[1..n -> RouteEntries] : n \in 0..MaxRoutes}

(* ------------------------------- state --------------------------------- *)

VARIABLES
    pathname,   \* location.pathname of the BrowserRouter
    routes,     \* the routes array given to useTypedSwitch
    fallback,   \* the fallbackComponent given to useTypedSwitch, or Undefined
    screen,     \* what <TypedSwitch /> renders at pathname
    to,         \* the path handed to TypedLink, TypedRedirect or isParams
    params,     \* the params value handed along with it
    call        \* the last call of buildUrl, isParams or useTypedParams

vars == <<pathname, routes, fallback, screen, to, params, call>>

NoCall == [op |-> "none", path |-> <<>>, ok |-> FALSE, url |-> <<>>, obj |-> EmptyObject]

\* The location changes and <TypedSwitch /> renders again.
GoTo(url) ==
    /\ pathname' = url
    /\ screen' = Render(routes, fallback, url)

(* ------------------- the App: Spec (routes of App) --------------------- *)

Init ==
    /\ pathname = P_root
    /\ routes = AppRoutes
    /\ fallback = Undefined
    /\ screen = Render(AppRoutes, Undefined, P_root)
    /\ to = P_root
    /\ params = PlainObject(EmptyObject)
    /\ call = NoCall

\* The browser is sent to a location (address bar, history).
Navigate ==
    \E p \in Pathnames :
        /\ GoTo(p)
        /\ call' = NoCall
        /\ UNCHANGED <<routes, fallback, to, params>>

\* A click on a <TypedLink>: Link navigates to buildUrl(to, params).
Followed(link, op, url) ==
    /\ GoTo(url)
    /\ call' = [op |-> op, path |-> link.to, ok |-> TRUE, url |-> url, obj |-> link.params]

\* (The URLs built here start with "/" and hold no "?", "#" or "%", so the
\* location Link resolves has the URL as its pathname.)
FollowLink(link, op) == Followed(link, op, buildUrl(link.to, link.params))

ClickNavBar ==
    \E link \in NavBarLinks :
        /\ FollowLink(link, "TypedLink")
        /\ UNCHANGED <<routes, fallback, to, params>>

\* The links of Home are there while Home is what the switch shows.
ClickHomeLink ==
    /\ screen.kind = "route"
    /\ screen.component = "Home"
    /\ \E link \in HomeLinks :
        /\ FollowLink(link, "TypedLink")
        /\ UNCHANGED <<routes, fallback, to, params>>

TypedParamsCall(path, at, ret) ==
    [op |-> "useTypedParams", path |-> path, ok |-> ~ret.isNull, url |-> at,
     obj |-> ret.params]

\* A component calls useTypedParams(path) at the current location.
CallUseTypedParams ==
    \E path \in PATHS :
        /\ call' = TypedParamsCall(path, pathname, useTypedParams(path, pathname))
        /\ UNCHANGED <<pathname, routes, fallback, screen, to, params>>

Next == Navigate \/ ClickNavBar \/ ClickHomeLink \/ CallUseTypedParams

Spec == Init /\ [][Next]_vars

(* ------- TypedLink, TypedRedirect, isParams on drawn arguments --------- *)

InitLink ==
    /\ pathname = P_root
    /\ routes = AppRoutes
    /\ fallback = Undefined
    /\ screen = Render(AppRoutes, Undefined, P_root)
    /\ to \in PATHS
    /\ params \in Candidates
    /\ call = NoCall

\* <TypedLink to={to} params={params}> is clicked.  params is of an object
\* type, so neither null nor a primitive gets here.
ClickTypedLink ==
    /\ params.kind = "object"
    /\ FollowLink([to |-> to, params |-> params.props], "TypedLink")
    /\ UNCHANGED <<routes, fallback, to, params>>

\* <TypedRedirect to={to} params={params}> is rendered: Redirect navigates
\* to buildUrl(to, params).
RenderTypedRedirect ==
    /\ params.kind = "object"
    /\ FollowLink([to |-> to, params |-> params.props], "TypedRedirect")
    /\ UNCHANGED <<routes, fallback, to, params>>

CallIsParams ==
    /\ call' = [op |-> "isParams", path |-> to, ok |-> isParams(to, params),
                url |-> <<>>, obj |-> EmptyObject]
    /\ UNCHANGED <<pathname, routes, fallback, screen, to, params>>

NextLink == ClickTypedLink \/ RenderTypedRedirect \/ CallIsParams

SpecLink == InitLink /\ [][NextLink]_vars

(* ------------- useTypedSwitch on drawn routes and fallback ------------- *)

InitSwitch ==
    /\ pathname = P_root
    /\ routes \in Registries
    /\ fallback \in Fallbacks
    /\ screen = Render(routes, fallback, P_root)
    /\ to = P_root
    /\ params = PlainObject(EmptyObject)
    /\ call = NoCall

NextSwitch == Navigate

SpecSwitch == InitSwitch /\ [][NextSwitch]_vars

(* ----------------- what the properties are stated with ---------------- *)

\* A template and a path as "/"-delimited segments; a segment that starts
\* with the marker is a parameter segment, named by the rest of it.
Segments(s) == Split(s, "/")
IsMarked(seg) == seg # <<>> /\ Head(seg) = ":"
MarkedNames(segs) == {Tail(segs[k]) : k \in {j \in 1..Len(segs) : IsMarked(segs[j])}}
ParamNames(template) == MarkedNames(Segments(template))

AsSet(obj) == {obj[k] : k \in 1..Len(obj)}

SegmentsMatch(ts, ps) ==
    /\ Len(ts) = Len(ps)
    /\ \A k \in 1..Len(ts) : IF IsMarked(ts[k]) THEN ps[k] # <<>> ELSE ps[k] = ts[k]
TemplateMatches(template, path) == SegmentsMatch(Segments(template), Segments(path))

SegmentBindings(ts, ps) ==
    {[key |-> Tail(ts[k]), val |-> ps[k]] : k \in {j \in 1..Len(ts) : IsMarked(ts[j])}}
Bindings(template, path) == SegmentBindings(Segments(template), Segments(path))

\* The template with each parameter segment the bag has a value for
\* replaced by that value, and every other segment as it is.
FilledSegment(seg, obj) ==
    IF IsMarked(seg) /\ Tail(seg) \in KeySet(obj) THEN Get(obj, Tail(seg)) ELSE seg
RECURSIVE Join(_)
Join(segs) ==
    IF Len(segs) = 1 THEN segs[1] ELSE segs[1] \o <<"/">> \o Join(Tail(segs))
FillSegments(segs, obj) == Join([k \in 1..Len(segs) |-> FilledSegment(segs[k], obj)])
Filled(template, obj) == FillSegments(Segments(template), obj)

\* The bag restricted to some names, in its own key order.
Restrict(obj, names) == SelectSeq(obj, LAMBDA e : e.key \in names)

\* The last call built a URL from call.path and call.obj.
Built == call.op \in {"TypedLink", "TypedRedirect"}

\* The entries of routes whose template matches the current path.
Matching == {j \in 1..Len(routes) : TemplateMatches(routes[j].path, pathname)}

(* ------------------------------ properties ----------------------------- *)

\* C1: round trip.  When a URL is built from a registered template T and a
\* bag P whose keys are exactly the required names of T, the switch at that
\* URL selects the entry of T and observes a bag equal to P.
C1_RoundTrip ==
    (Built /\ KeySet(call.obj) = ParamNames(call.path))
        => /\ screen.kind = "route"
           /\ routes[screen.index].path = call.path
           /\ AsSet(screen.params) = AsSet(call.obj)

\* C2 as claimed: isParams returns true exactly when the candidate is a
\* non-null key-value structure whose keys contain every required name.
C2_AnyKeyValueStructure ==
    call.op = "isParams"
        => (call.ok <=> (params.kind = "object"
                         /\ ParamNames(to) \subseteq KeySet(params.props)))

\* C2 as amended: isParams returns true exactly when the candidate is an
\* instance of Object (an object with Object.prototype on its prototype
\* chain) whose own keys contain every required name of the template; it is
\* false for null, undefined and primitives even when the template has no
\* parameter, and extra keys do not change the result.
C2_InstanceOfObjectWithKeys ==
    call.op = "isParams"
        => (call.ok <=> (params.kind = "object" /\ params.inheritsObject
                         /\ ParamNames(to) \subseteq KeySet(params.props)))

C2_Witness ==
    /\ call.op = "isParams"
    /\ call.ok
    /\ ParamNames(to) # {}
    /\ KeySet(params.props) \ ParamNames(to) # {}

\* C3: extra keys are ignored.  When the bag holds every required name, the
\* URL built is the one built from the bag restricted to the required names.
C3_ExtraKeysIgnored ==
    (Built /\ ParamNames(call.path) \subseteq KeySet(call.obj))
        => call.url = buildUrl(call.path, Restrict(call.obj, ParamNames(call.path)))

\* C4: substitution by exact token.  When the bag holds every required
\* name, the URL built is the template with each parameter segment replaced
\* by the value of that parameter and every literal segment unchanged.
C4_ExactTokenSubstitution ==
    (Built /\ ParamNames(call.path) \subseteq KeySet(call.obj))
        => call.url = Filled(call.path, call.obj)

\* C5: first match wins.  When entries of the registry match the path, the
\* switch selects the one with the smallest index and shows its component.
C5_FirstMatchWins ==
    Matching # {}
        => /\ screen.kind = "route"
           /\ screen.index \in Matching
           /\ \A j \in Matching : screen.index <= j
           /\ screen.component = routes[screen.index].component

C5_Witness ==
    /\ Len(routes) >= 2
    /\ routes[1].component # routes[2].component
    /\ Matching = {1, 2}
    /\ screen.kind = "route"
    /\ screen.index = 1
    /\ screen.component = routes[1].component

\* C6: useTypedParams(T) at a path is not null exactly when T and the path
\* have the same number of segments, every literal segment of T is the
\* segment of the path at its position and every parameter segment faces a
\* non-empty segment; the bag it returns then binds each parameter name to
\* the segment at its position.
C6_SegmentExactMatch ==
    call.op = "useTypedParams"
        => /\ call.ok <=> TemplateMatches(call.path, pathname)
           /\ call.ok => AsSet(call.obj) = Bindings(call.path, pathname)

C6_Witness ==
    /\ call.op = "useTypedParams"
    /\ call.path = P_calendar
    /\ call.ok
    /\ Cardinality(AsSet(call.obj)) = 2

\* C7: the switch shows the fallback exactly when no entry matches the path
\* and a fallback was given; with no match and no fallback it shows nothing.
C7_FallbackIffNoMatch ==
    /\ screen.kind = "fallback" <=> (Matching = {} /\ fallback # Undefined)
    /\ screen.kind = "fallback" => screen.component = fallback
    /\ (Matching = {} /\ fallback = Undefined) => screen.kind = "null"

C7_Witness ==
    /\ screen.kind = "fallback"
    /\ routes # <<>>
    /\ pathname # P_root

\* C8: useTypedParams(T) returns the bag the match of T observed whenever
\* the current path matches T, and null otherwise; so the screen the switch
\* selects for T gets that bag, and Post and Calendar do not throw.
C8_LookupReturnsObservedBag ==
    /\ call.op = "useTypedParams"
        => IF matchPath(pathname, RouteProps(call.path)).isMatch
           THEN call.ok /\ call.obj = matchPath(pathname, RouteProps(call.path)).params
           ELSE ~call.ok
    /\ (screen.kind = "route" /\ ScreenPath(screen.component) = routes[screen.index].path)
        => ~screen.threw /\ screen.typed = screen.params
    /\ screen.component \in {"Post", "Calendar"} => ~screen.threw

C8_Witness ==
    /\ screen.kind = "route"
    /\ screen.component = "Calendar"
    /\ ~screen.threw
    /\ Len(screen.typed) = 2
    /\ call.op = "useTypedParams"
    /\ call.path = P_calendar
    /\ call.ok

\* C9: when a required name is absent from the bag, the URL built is the
\* template with the marker token of each absent parameter left as it is
\* and each parameter the bag holds replaced by its value.
C9_AbsentMarkerLeft ==
    (Built /\ ~(ParamNames(call.path) \subseteq KeySet(call.obj)))
        => call.url = Filled(call.path, call.obj)

\* C10: for a template without parameter segments the URL built is the
\* template itself, whatever the bag holds.
C10_NoParamsUnchanged ==
    (Built /\ ParamNames(call.path) = {}) => call.url = call.path

C10_Witness ==
    /\ Built
    /\ ParamNames(call.path) = {}
    /\ Len(call.obj) = MaxKeys
    /\ call.url = call.path

TypeOK ==
    /\ screen.kind \in {"route", "fallback", "null"}
    /\ call.op \in {"none", "TypedLink", "TypedRedirect", "isParams", "useTypedParams"}

====
